---- MODULE Spec2Model ----
(***************************************************************************)
(* A model of fsButler/utils.py: the closest-match reduction of            *)
(* strictMatch, the schema reconciliation of createSchemaMapper, the       *)
(* suffix discovery of getCatSuffixes, the fold of matchMultiBand and the  *)
(* row predicate goodSources.                                              *)
(***************************************************************************)
EXTENDS Integers, Sequences, FiniteSets, Bags, TLC

(***************************************************************************)
(* Bounds of the model.                                                    *)
(***************************************************************************)
\* rows of the first catalog that the cross-match may name
NumA == 2
\* row ids of the second catalog that the cross-match may name
NumB == 2
\* separations are 1..MaxDist
MaxDist == 2
\* longest candidate list returned by the cross-match
MaxMatched == 3
\* longest candidate list of the one-to-many runs (SpecOneToMany)
MaxMatchedOneToMany == 4
\* the filter suffixes the input catalogs carry are the first NumBands of
\* _g, _r, _i, _z, _y
NumBands == 2
\* most catalogs matchMultiBand folds (len(filters))
MaxFilters == 2
\* most rows of the catalog given to goodSources
MaxRows == 2
\* deblend.nchild of a row is in -MaxChild..MaxChild
MaxChild == 1

VARIABLES
    pc,                 \* position of the running call
    includeMismatches,  \* strictMatch's argument
    matched,            \* the candidates of matchRaDec's list consumed so far
    bestMatches,        \* dict: catalogB row id -> (m1, m2, d)
    noMatch,            \* list of the m1 whose m2 is None
    printed,            \* the numbers the two print statements format
    cat,                \* the bag of rows of the output catalog
    ret,                \* what the call returned
    args,               \* createSchemaMapper's arguments
    scm,                \* createSchemaMapper's SchemaMapper, or what it raised
    cats,               \* matchMultiBand's cats: the schema of each catalog
    matchedSchema,      \* the schema of matchMultiBand's matched
    nextCat,            \* matchMultiBand's loop index, counted from 1
    err,                \* what strictMatch raised inside matchMultiBand
    rows,               \* the rows of goodSources' cat
    good                \* goodSources' result

matchVars == <<includeMismatches, matched, bestMatches, noMatch, printed, cat, ret>>
mapperVars == <<args, scm>>
foldVars == <<cats, matchedSchema, nextCat, err>>
goodVars == <<rows, good>>
vars == <<pc, matchVars, mapperVars, foldVars, goodVars>>

\* the variables of the calls that are not running
UnusedMatch ==
    /\ includeMismatches = <<>> /\ matched = <<>> /\ bestMatches = <<>> /\ noMatch = <<>>
    /\ printed = <<>> /\ cat = <<>> /\ ret = <<>>

UnusedMapper == args = <<>> /\ scm = <<>>

UnusedFold == cats = <<>> /\ matchedSchema = <<>> /\ nextCat = <<>> /\ err = <<>>

UnusedGood == rows = <<>> /\ good = <<>>

(***************************************************************************)
(* strictMatch                                                             *)
(***************************************************************************)
\* m2 of a candidate without partner
None == 0

RowsA == 1..NumA
IdsB == 1..NumB

\* one element of the list matchRaDec returns: (m1, m2, d).  m2 is the
\* second catalog's record, identified by its getId(); the separation of a
\* candidate without partner is never read.
Candidates(withMismatches) ==
    [m1 : RowsA, m2 : IdsB, d : 1..MaxDist]
        \cup (IF withMismatches THEN [m1 : RowsA, m2 : {None}, d : {MaxDist + 1}] ELSE {})

\* the dict with one more key
Put(dict, key, value) ==
    [k \in DOMAIN dict \cup {key} |-> IF k = key THEN value ELSE dict[k]]

\* loopNoMatch with the test of line 243 inverted
loopNoMatch_inverted(nm, m) ==
    IF m.m2 # None THEN Append(nm, m.m1) ELSE nm

\* lines 243-244: the effect of one loop iteration on noMatch
loopNoMatch(nm, m) ==
    IF m.m2 = None THEN Append(nm, m.m1) ELSE nm

\* loopBestMatches with the comparison of line 250 written d <= ...
loopBestMatches_lessOrEqual(best, m) ==
    IF m.m2 = None THEN best
    ELSE LET id == m.m2 IN
         IF id \notin DOMAIN best THEN Put(best, id, m)
         ELSE IF m.d <= best[id].d THEN Put(best, id, m)
         ELSE best

\* loopBestMatches with the key of line 246 taken from m1
loopBestMatches_keyedByM1(best, m) ==
    IF m.m2 = None THEN best
    ELSE LET id == m.m1 IN
         IF id \notin DOMAIN best THEN Put(best, id, m)
         ELSE IF m.d < best[id].d THEN Put(best, id, m)
         ELSE best

\* lines 245-251: the effect of one loop iteration on bestMatches
loopBestMatches(best, m) ==
    IF m.m2 = None THEN best
    ELSE LET id == m.m2 IN
         IF id \notin DOMAIN best THEN Put(best, id, m)
         ELSE IF m.d < best[id].d THEN Put(best, id, m)
         ELSE best

\* lines 253-255: the two counts printed when includeMismatches
report(withMismatches, all, nm, best) ==
    IF withMismatches
    THEN <<Len(nm), Len(all) - Len(nm) - Cardinality(DOMAIN best)>>
    ELSE <<>>

\* lines 269-274: the row built from one kept match: record.assign(m1, scm)
\* copies from m1, record.set copies the suffixed fields of m2
newRow(best, id) == [fromA |-> best[id].m1, fromB |-> best[id].m2]

\* lines 259-274: the catalog built from the kept matches, one addNew() per
\* key of the dict.  The rows come in the dict's iteration order, which the
\* language leaves open; the catalog is kept as the bag of its rows.
buildCat(best) ==
    LET records == {newRow(best, id) : id \in DOMAIN best}
    IN  [r \in records |-> Cardinality({id \in DOMAIN best : newRow(best, id) = r})]

\* line 275
returned(catalog, nm) == <<catalog>>

\* matchRaDec (line 238) lists a pair of rows at most once, and lists a row
\* of the first catalog without partner only if it lists it with no partner
\* at all, and only when mc.includeMismatches is set (line 235).
mayFollow(list, m) ==
    \A i \in DOMAIN list :
        list[i].m1 = m.m1 => /\ list[i].m2 # None
                             /\ m.m2 # None
                             /\ list[i].m2 # m.m2

Init ==
    /\ pc = "loop"
    /\ includeMismatches \in BOOLEAN
    /\ matched = <<>>
    /\ bestMatches = <<>>
    /\ noMatch = <<>>
    /\ printed = <<>>
    /\ cat = EmptyBag
    /\ ret = <<>>
    /\ UnusedMapper /\ UnusedFold /\ UnusedGood

\* lines 242-251: one iteration of the loop over matched
LoopUpTo(maxLen) ==
    /\ pc = "loop"
    /\ Len(matched) < maxLen
    /\ \E m \in Candidates(includeMismatches) :
        /\ mayFollow(matched, m)
        /\ matched' = Append(matched, m)
        /\ noMatch' = loopNoMatch(noMatch, m)
        /\ bestMatches' = loopBestMatches(bestMatches, m)
    /\ UNCHANGED <<pc, includeMismatches, printed, cat, ret>>
    /\ UNCHANGED <<mapperVars, foldVars, goodVars>>

Loop == LoopUpTo(MaxMatched)

LoopOneToMany == LoopUpTo(MaxMatchedOneToMany)

\* lines 253-275: the list is exhausted; report, build the catalog, return
Finish ==
    /\ pc = "loop"
    /\ pc' = "done"
    /\ printed' = report(includeMismatches, matched, noMatch, bestMatches)
    /\ cat' = buildCat(bestMatches)
    /\ ret' = returned(cat', noMatch)
    /\ UNCHANGED <<includeMismatches, matched, bestMatches, noMatch>>
    /\ UNCHANGED <<mapperVars, foldVars, goodVars>>

Next == Loop \/ Finish

Spec == Init /\ [][Next]_vars

NextOneToMany == LoopOneToMany \/ Finish

\* the same call on candidate lists of up to MaxMatchedOneToMany entries
SpecOneToMany == Init /\ [][NextOneToMany]_vars

(***************************************************************************)
(* Column names and schemas                                                *)
(*                                                                         *)
(* A string is the sequence of its pieces: "flux.psf_g" is                 *)
(* <<"flux.psf", "_g">>, "flux.zeromag.err" is <<"flux.zeromag", ".err">>, *)
(* the empty string is <<>>, and + is \o.  A schema is the sequence of its *)
(* column names.                                                           *)
(***************************************************************************)
\* line 16
_fixedFields == << <<"id">>, <<"coord">> >>

\* line 18
_fixedPatterns == << >>

\* lines 20-29
_suffixableFields ==
    << <<"parent">>,
       <<"deblend.nchild">>,
       <<"classification.extendedness">>,
       <<"flags.pixel.bad">>,
       <<"flags.pixel.edge">>,
       <<"flags.pixel.interpolated.any">>,
       <<"flags.pixel.interpolated.center">>,
       <<"flags.pixel.saturated.any">>,
       <<"flags.pixel.saturated.center">> >>

\* lines 31-37: each pattern is the given prefix followed by "*"
_suffixablePatterns ==
    << <<"flux.zeromag">>,
       <<"flux.psf">>,
       <<"cmodel">>,
       <<"centroid">>,
       <<"seeing">>,
       <<"exptime">>,
       <<"multId">> >>

\* line 39: the pieces (_[grizy]) matches
_suffixRegex == {"_g", "_r", "_i", "_z", "_y"}

\* an optional argument: None, or a value
Nothing == [supplied |-> FALSE, value |-> <<>>]
Some(v) == [supplied |-> TRUE, value |-> v]

\* Python's truth value of an optional string: None and "" are false
Truthy(opt) == opt.supplied /\ opt.value # <<>>

\* for x in seq: acc = Op(acc, x)
Fold(Op(_, _), acc, seq) ==
    LET upTo[i \in 0..Len(seq)] == IF i = 0 THEN acc ELSE Op(upTo[i - 1], seq[i])
    IN  upTo[Len(seq)]

Has(seq, x) == \E i \in DOMAIN seq : seq[i] = x

\* G of the value of v, with v evaluated once
Apply(G(_), v) == CHOOSE r \in {G(x) : x \in {v}} : TRUE

\* lines 57-69
_getFilterSuffix(filterSuffix) ==
    IF filterSuffix = <<"HSC-G">> THEN <<"_g">>
    ELSE IF filterSuffix = <<"HSC-R">> THEN <<"_r">>
    ELSE IF filterSuffix = <<"HSC-I">> THEN <<"_i">>
    ELSE IF filterSuffix = <<"HSC-Z">> THEN <<"_z">>
    ELSE IF filterSuffix = <<"HSC-Y">> THEN <<"_y">>
    ELSE filterSuffix

\* lines 71-81
_suffixOrder(suffix) ==
    CASE suffix = <<"_g">> -> 1
      [] suffix = <<"_r">> -> 2
      [] suffix = <<"_i">> -> 3
      [] suffix = <<"_z">> -> 4
      [] suffix = <<"_y">> -> 5

\* for x in seq: acc += F(x)
FlatMap(F(_), seq) ==
    LET upTo[i \in 0..Len(seq)] == IF i = 0 THEN <<>> ELSE upTo[i - 1] \o F(seq[i])
    IN  upTo[Len(seq)]

\* list.sort(key=_suffixOrder), line 104: a stable sort by the key
sortBySuffixOrder(list) ==
    LET before(j, i) ==
            \/ _suffixOrder(list[j]) < _suffixOrder(list[i])
            \/ _suffixOrder(list[j]) = _suffixOrder(list[i]) /\ j <= i
        rank(i) == Cardinality({j \in DOMAIN list : before(j, i)})
    IN  [k \in DOMAIN list |-> list[CHOOSE i \in DOMAIN list : rank(i) = k]]

\* _suffixRegex.search(fieldName), lines 99-101: whether the name ends in a
\* suffix, and the suffix
hasSuffix(fieldName) ==
    Len(fieldName) > 0 /\ fieldName[Len(fieldName)] \in _suffixRegex

suffixOf(fieldName) == <<fieldName[Len(fieldName)]>>

\* lines 96-103: the suffixes of the schema's names, each once, in the order
\* of their first appearance
scanSuffixes(schema) ==
    LET first == SelectSeq([i \in DOMAIN schema |-> i],
                           LAMBDA i : /\ hasSuffix(schema[i])
                                      /\ \A j \in 1..(i - 1) :
                                            ~(hasSuffix(schema[j])
                                              /\ suffixOf(schema[j]) = suffixOf(schema[i])))
    IN  [k \in DOMAIN first |-> suffixOf(schema[first[k]])]

\* getCatSuffixes without the sort of line 104
getCatSuffixes_unsorted(schema) == scanSuffixes(schema)

\* lines 95-105
getCatSuffixes(schema) == Apply(sortBySuffixOrder, scanSuffixes(schema))

\* schema.extract(prefix + "*"): the names that start with the prefix.  The
\* names come as a dict, listed here in schema order.
extract(schema, prefix) ==
    SelectSeq(schema, LAMBDA n : /\ Len(n) >= Len(prefix)
                                 /\ SubSeq(n, 1, Len(prefix)) = prefix)

\* schema.extract("*" + suffix): the names that end with the suffix
extractSuffixed(schema, suffix) ==
    SelectSeq(schema, LAMBDA n : /\ Len(n) >= Len(suffix)
                                 /\ SubSeq(n, Len(n) - Len(suffix) + 1, Len(n)) = suffix)

(***************************************************************************)
(* The SchemaMapper.  createSchemaMapper makes a sequence of calls of       *)
(* scm.addMapping and scm.addOutputField; each is kept as a request: the   *)
(* name of the output column, the input column it is mapped from (<<>> for *)
(* an output-only column), and the name schema.find or schema2.find is     *)
(* asked for before the call.                                              *)
(***************************************************************************)
NoSource == <<>>

\* scm.addMapping(schema.find(f).getKey(), field renamed to target)
addMapping(f, target) == [name |-> target, from |-> f, find |-> f, in |-> "schema"]

\* scm.addOutputField(field named name)
addOutputField(name) == [name |-> name, from |-> NoSource, find |-> <<>>, in |-> ""]

\* scm.addOutputField(schema2.find(f).getField())
addOutputFieldOf(f) == [name |-> f, from |-> NoSource, find |-> f, in |-> "schema2"]

\* lines 132-137
mapFixed(schema) ==
    FlatMap(LAMBDA f : <<addMapping(f, f)>>, _fixedFields)
    \o FlatMap(LAMBDA p : FlatMap(LAMBDA f : <<addMapping(f, f)>>, extract(schema, p)),
               _fixedPatterns)

\* lines 140-153
mapSuffixableFields(suffixes, filterSuffix) ==
    LET suffix == _getFilterSuffix(filterSuffix.value)
    IN  (IF filterSuffix.supplied THEN <<addOutputField(<<"multId">> \o suffix)>> ELSE <<>>)
        \o FlatMap(LAMBDA f :
                      IF filterSuffix.supplied
                      THEN <<addMapping(f, f \o suffix)>>
                      ELSE IF Len(suffixes) = 0
                           THEN <<addMapping(f, f)>>
                           ELSE FlatMap(LAMBDA s : <<addMapping(f \o s, f \o s)>>, suffixes),
                   _suffixableFields)

\* lines 154-162
mapSuffixablePatterns(schema, filterSuffix) ==
    LET suffix == _getFilterSuffix(filterSuffix.value)
    IN  FlatMap(LAMBDA p :
                   FlatMap(LAMBDA f :
                              IF Truthy(filterSuffix)
                              THEN <<addMapping(f, f \o suffix)>>
                              ELSE <<addMapping(f, f)>>,
                           extract(schema, p)),
                _suffixablePatterns)

\* lines 164-175
reserveCat2(cat2) ==
    IF ~cat2.supplied THEN <<>>
    ELSE LET schema2 == cat2.value
             reserve(suffixes2) ==
                FlatMap(LAMBDA f : FlatMap(LAMBDA s : <<addOutputFieldOf(f \o s)>>, suffixes2),
                        _suffixableFields)
                \o FlatMap(LAMBDA p :
                              FlatMap(LAMBDA f : <<addOutputFieldOf(f)>>, extract(schema2, p)),
                           _suffixablePatterns)
         IN  Apply(reserve, getCatSuffixes(schema2))

\* lines 177-208: the output-only columns of one of withZeroMagFlux,
\* withSeeing, withExptime, whose fields are given
addSynthetic(requested, fields, suffixes, filterSuffix) ==
    IF ~requested THEN <<>>
    ELSE IF Truthy(filterSuffix)
         THEN FlatMap(LAMBDA n : <<addOutputField(n \o _getFilterSuffix(filterSuffix.value))>>,
                      fields)
         ELSE IF Len(suffixes) = 0
              THEN FlatMap(LAMBDA n : <<addOutputField(n)>>, fields)
              ELSE FlatMap(LAMBDA s : FlatMap(LAMBDA n : <<addOutputField(n \o s)>>, fields),
                           suffixes)

\* lines 210-212
addStellar(withStellar) ==
    IF withStellar
    THEN <<addOutputField(<<"stellar">>), addOutputField(<<"mag.auto">>)>>
    ELSE <<>>

\* Schema.addField accepting a name the schema already has
nameTaken_never(names, name) == FALSE

\* the output schema's addField: a schema holds columns with unique names,
\* and adding a name it already has fails
nameTaken(names, name) == Has(names, name)

raised(kind) == [status |-> kind, out |-> <<>>]

\* The calls made in order: a find of a name the schema lacks raises, an
\* addField of a name the output schema has raises, and then nothing more
\* is called; otherwise the mapper holds every column requested.
buildFrom(requests, schema, cat2) ==
    LET found(r) ==
            \/ r.in = ""
            \/ r.in = "schema" /\ Has(schema, r.find)
            \/ r.in = "schema2" /\ Has(cat2.value, r.find)
        names == [i \in DOMAIN requests |-> requests[i].name]
        failing == {i \in DOMAIN requests :
                       \/ ~found(requests[i])
                       \/ nameTaken(SubSeq(names, 1, i - 1), names[i])}
    IN  IF failing = {}
        THEN [status |-> "ok",
              out |-> [i \in DOMAIN requests |->
                          [name |-> requests[i].name, from |-> requests[i].from]]]
        ELSE LET k == CHOOSE i \in failing : \A j \in failing : i <= j
             IN  raised(IF found(requests[k]) THEN "InvalidParameterError"
                        ELSE "NotFoundError")

build(requests, schema, cat2) ==
    Apply(LAMBDA r : buildFrom(r, schema, cat2), requests)

outputNames(b) == [i \in DOMAIN b.out |-> b.out[i].name]

\* the keyword arguments left at their defaults
NoFlags ==
    [withZeroMagFlux |-> FALSE, withStellar |-> FALSE, withSeeing |-> FALSE, withExptime |-> FALSE]

\* lines 119-214.  schema is cat.getSchema() (line 129), cat2 an optional
\* schema, filterSuffix an optional string, with the four flags.
createSchemaMapper(schema, cat2, filterSuffix, with) ==
    LET mapper(suffixes) ==
            IF Len(suffixes) > 0 /\ filterSuffix.supplied
            THEN raised("ValueError")
            ELSE build(mapFixed(schema)
                       \o mapSuffixableFields(suffixes, filterSuffix)
                       \o mapSuffixablePatterns(schema, filterSuffix)
                       \o reserveCat2(cat2)
                       \o addSynthetic(with.withZeroMagFlux,
                                       << <<"flux.zeromag">>, <<"flux.zeromag", ".err">> >>,
                                       suffixes, filterSuffix)
                       \o addSynthetic(with.withSeeing, << <<"seeing">> >>,
                                       suffixes, filterSuffix)
                       \o addSynthetic(with.withExptime, << <<"exptime">> >>,
                                       suffixes, filterSuffix)
                       \o addStellar(with.withStellar),
                       schema, cat2)
    IN  IF cat2.supplied /\ Truthy(filterSuffix)
        THEN raised("ValueError")
        ELSE Apply(mapper, getCatSuffixes(schema))

(***************************************************************************)
(* The catalogs given to the calls                                         *)
(***************************************************************************)
AllBands == << <<"_g">>, <<"_r">>, <<"_i">>, <<"_z">>, <<"_y">> >>

Bands == SubSeq(AllBands, 1, NumBands)

BandSets == SUBSET {Bands[i] : i \in DOMAIN Bands}

\* columns a catalog may carry that a suffixable pattern matches
OptionalColumns ==
    << <<"multId">>, <<"flux.zeromag">>, <<"flux.zeromag", ".err">>, <<"seeing">>, <<"exptime">> >>

\* none of them, one of them, or all
OptionalSets ==
    {{}, {"multId"}, {"flux.zeromag"}, {"seeing"}, {"exptime"},
     {"multId", "flux.zeromag", "seeing", "exptime"}}

\* The schema of a catalog: id and coord, then the suffixable fields
\* (without parent if lacksParent), flux.psf, the optional columns chosen and,
\* if extra, shape.sdss, a column no suffixable field or pattern names; each
\* bare if bands is empty, and else once per band with the band's suffix.
MakeSchema(bands, optional, extra, lacksParent) ==
    LET suffixes == SelectSeq(AllBands, LAMBDA s : s \in bands)
        bases == SelectSeq(_suffixableFields, LAMBDA f : ~(lacksParent /\ f = <<"parent">>))
                 \o << <<"flux.psf">> >>
                 \o SelectSeq(OptionalColumns, LAMBDA n : n[1] \in optional)
                 \o (IF extra THEN << <<"shape.sdss">> >> ELSE <<>>)
    IN  _fixedFields \o
        (IF suffixes = <<>> THEN bases
         ELSE FlatMap(LAMBDA s : [i \in DOMAIN bases |-> bases[i] \o s], suffixes))

\* the first catalogs given to createSchemaMapper
MapperCatalogs ==
    {MakeSchema(b, o, FALSE, l) : b \in BandSets, o \in OptionalSets, l \in BOOLEAN}

\* the second catalogs given to createSchemaMapper
MapperCatalogs2 ==
    {MakeSchema(b, {"multId"}, FALSE, FALSE) : b \in BandSets}

\* the values of filterSuffix: None, "", a filter name, a suffix
FilterSuffixes == {Nothing, Some(<<>>), Some(<<"HSC-G">>), Some(<<"_r">>)}

\* the catalogs fetchDataset hands to matchMultiBand
FoldCatalogs ==
    {MakeSchema(b, {"multId"}, e, FALSE) : b \in BandSets, e \in BOOLEAN}

(***************************************************************************)
(* createSchemaMapper as a call                                            *)
(***************************************************************************)
InitMapper ==
    /\ pc = "call"
    /\ args \in [schema : MapperCatalogs,
                 cat2 : {Nothing} \cup {Some(c) : c \in MapperCatalogs2},
                 filterSuffix : FilterSuffixes,
                 with : [withZeroMagFlux : BOOLEAN, withStellar : BOOLEAN,
                         withSeeing : BOOLEAN, withExptime : BOOLEAN]]
    /\ scm = <<>>
    /\ UnusedMatch /\ UnusedFold /\ UnusedGood

\* lines 119-214: the call returns the mapper (line 214) or raises (lines
\* 123 and 127, and the failing calls of the schemas)
CreateSchemaMapper ==
    /\ pc = "call"
    /\ scm' = createSchemaMapper(args.schema, args.cat2, args.filterSuffix, args.with)
    /\ \/ scm'.status = "ok" /\ pc' = "returned"
       \/ scm'.status # "ok" /\ pc' = "raised"
    /\ UNCHANGED <<args, matchVars, foldVars, goodVars>>

NextMapper == CreateSchemaMapper

SpecMapper == InitMapper /\ [][NextMapper]_vars

(***************************************************************************)
(* matchMultiBand: the schemas through the fold of strictMatch             *)
(***************************************************************************)
\* lines 263-265: the names of the second catalog's columns that are copied
cat2Fields(schema2) ==
    FlatMap(LAMBDA suffix : extractSuffixed(schema2, suffix), getCatSuffixes(schema2))

\* lines 257-268 of strictMatch: the schema of the catalog it returns, or
\* what it raised and where
strictMatchSchema(schema1, schema2) ==
    LET lookup(mapper, fields) ==
            IF mapper.status # "ok"
            THEN [status |-> mapper.status, at |-> "createSchemaMapper", schema |-> <<>>]
            ELSE IF \E i \in DOMAIN fields : ~Has(outputNames(mapper), fields[i])
                 THEN [status |-> "NotFoundError", at |-> "strictMatch", schema |-> <<>>]
                 ELSE [status |-> "ok", at |-> "", schema |-> outputNames(mapper)]
    IN  Apply(LAMBDA mapper : Apply(LAMBDA fields : lookup(mapper, fields),
                                    cat2Fields(schema2)),
              createSchemaMapper(schema1, Some(schema2), Nothing, NoFlags))

\* lines 278-283
InitMultiBand ==
    /\ pc = "fold"
    /\ \E n \in 1..MaxFilters : cats \in [1..n -> FoldCatalogs]
    /\ matchedSchema = cats[1]
    /\ nextCat = 2
    /\ err = <<>>
    /\ UnusedMatch /\ UnusedMapper /\ UnusedGood

\* lines 285-286: one strictMatch of the fold
FoldStep ==
    /\ pc = "fold"
    /\ nextCat <= Len(cats)
    /\ LET result == strictMatchSchema(matchedSchema, cats[nextCat])
       IN  /\ result.status = "ok"
           /\ matchedSchema' = result.schema
    /\ nextCat' = nextCat + 1
    /\ UNCHANGED <<pc, cats, err, matchVars, mapperVars, goodVars>>

\* line 286: strictMatch raises
FoldRaise ==
    /\ pc = "fold"
    /\ nextCat <= Len(cats)
    /\ LET result == strictMatchSchema(matchedSchema, cats[nextCat])
       IN  /\ result.status # "ok"
           /\ err' = [status |-> result.status, at |-> result.at]
    /\ pc' = "raised"
    /\ UNCHANGED <<cats, matchedSchema, nextCat, matchVars, mapperVars, goodVars>>

\* line 288
FoldReturn ==
    /\ pc = "fold"
    /\ nextCat > Len(cats)
    /\ pc' = "returned"
    /\ UNCHANGED <<foldVars, matchVars, mapperVars, goodVars>>

NextMultiBand == FoldStep \/ FoldRaise \/ FoldReturn

SpecMultiBand == InitMultiBand /\ [][NextMultiBand]_vars

(***************************************************************************)
(* goodSources                                                             *)
(***************************************************************************)
\* line 219-221
badFlags == <<"flags.pixel.edge", "flags.pixel.bad", "flags.pixel.saturated.center">>

\* cat.get(name): the column as an array
get(catalog, name) == [i \in DOMAIN catalog |-> catalog[i][name]]

\* goodSources with flags.pixel.bad left out of the list of line 219-221
goodSources_withoutBad(catalog) ==
    LET none == [i \in DOMAIN catalog |-> FALSE]
        bad == Fold(LAMBDA x, y : [i \in DOMAIN catalog |-> x[i] \/ get(catalog, y)[i]],
                    none, <<"flags.pixel.edge", "flags.pixel.saturated.center">>)
        noChild == [i \in DOMAIN catalog |-> get(catalog, "deblend.nchild")[i] = 0]
    IN  [i \in DOMAIN catalog |-> ~bad[i] /\ noChild[i]]

\* lines 216-226; the scalar False the reduce starts from is broadcast over
\* the rows
goodSources(catalog) ==
    LET none == [i \in DOMAIN catalog |-> FALSE]
        bad == Fold(LAMBDA x, y : [i \in DOMAIN catalog |-> x[i] \/ get(catalog, y)[i]],
                    none, badFlags)
        noChild == [i \in DOMAIN catalog |-> get(catalog, "deblend.nchild")[i] = 0]
    IN  [i \in DOMAIN catalog |-> ~bad[i] /\ noChild[i]]

\* a row of the catalog: the four columns goodSources reads
Rows ==
    {("flags.pixel.edge" :> edge) @@ ("flags.pixel.bad" :> bad)
        @@ ("flags.pixel.saturated.center" :> saturated) @@ ("deblend.nchild" :> nchild) :
     edge \in BOOLEAN, bad \in BOOLEAN, saturated \in BOOLEAN,
     nchild \in (0 - MaxChild)..MaxChild}

InitGood ==
    /\ pc = "call"
    /\ \E n \in 0..MaxRows : rows \in [1..n -> Rows]
    /\ good = <<>>
    /\ UnusedMatch /\ UnusedMapper /\ UnusedFold

GoodSources ==
    /\ pc = "call"
    /\ good' = goodSources(rows)
    /\ pc' = "returned"
    /\ UNCHANGED <<rows, matchVars, mapperVars, foldVars>>

NextGood == GoodSources

SpecGood == InitGood /\ [][NextGood]_vars

(***************************************************************************)
(* Properties of strictMatch                                               *)
(***************************************************************************)
\* the catalogB row ids that occur in a candidate with a B-row
BIdsOf(list) == {list[i].m2 : i \in {j \in DOMAIN list : list[j].m2 # None}}

\* the positions of the candidates of a catalogB row id
CandidatesOf(list, id) == {i \in DOMAIN list : list[i].m2 = id}

\* the earliest position among the candidates of id with the smallest separation
FirstClosest(list, id) ==
    LET idx == CandidatesOf(list, id)
        closest == {i \in idx : \A j \in idx : list[i].d <= list[j].d}
    IN  CHOOSE i \in closest : \A j \in closest : i <= j

\* the number of rows of the output catalog built from catalogB row b
RowsFromB(b) ==
    BagCardinality([r \in {x \in DOMAIN cat : x.fromB = b} |-> cat[r]])

\* the number of rows of the output catalog built from catalogA row a
RowsFromA(a) ==
    BagCardinality([r \in {x \in DOMAIN cat : x.fromA = a} |-> cat[r]])

\* the m1 of the candidates without partner, in the order processed
UnmatchedRows(list) ==
    LET without == SelectSeq(list, LAMBDA m : m.m2 = None)
    IN  [i \in DOMAIN without |-> without[i].m1]

\* the catalogA rows with a candidate that was not kept for its catalogB row
Losers(list, best) ==
    {list[i].m1 : i \in {j \in DOMAIN list :
                            list[j].m2 # None /\ best[list[j].m2] # list[j]}}

\* C1: after any prefix of the candidate list the best-match map holds one
\* entry for each catalogB row id that occurs in a candidate with a B-row,
\* the entry being a candidate of that id, and none else; the output catalog
\* has exactly one row per such id, so no two rows come from the same
\* catalogB row.
C1_OneRowPerCatalogBRow ==
    /\ DOMAIN bestMatches = BIdsOf(matched)
    /\ \A id \in DOMAIN bestMatches : bestMatches[id].m2 = id
    /\ pc = "done" =>
        \A b \in IdsB : RowsFromB(b) = IF b \in BIdsOf(matched) THEN 1 ELSE 0

\* C1 witness: two rows of catalogA were candidates for the same catalogB
\* row and the catalog was built with one row for it
C1_Witness ==
    /\ pc = "done"
    /\ \E b \in IdsB : Cardinality(CandidatesOf(matched, b)) >= 2 /\ RowsFromB(b) = 1
    /\ Cardinality(BIdsOf(matched)) >= 2

\* C2: after any prefix of the candidate list the entry kept for a catalogB
\* row id is the earliest-processed candidate among those of the smallest
\* separation for that id: no candidate of the id is strictly closer than
\* the kept one and a later candidate at equal separation does not replace it.
C2_EarliestClosestKept ==
    \A id \in DOMAIN bestMatches :
        /\ CandidatesOf(matched, id) # {}
        /\ bestMatches[id] = matched[FirstClosest(matched, id)]
        /\ \A i \in CandidatesOf(matched, id) : bestMatches[id].d <= matched[i].d

\* C2 witness: two candidates of one catalogB row at the same, smallest
\* separation were processed and the earlier one is the entry kept
C2_Witness ==
    \E i, j \in DOMAIN matched :
        /\ i < j
        /\ matched[i].m2 # None
        /\ matched[j].m2 = matched[i].m2
        /\ matched[j].d = matched[i].d
        /\ matched[j] # matched[i]
        /\ bestMatches[matched[i].m2] = matched[i]

\* C3 as claimed: each catalogA row is the source of at most one row of the
\* merged output catalog
C3_OneRowPerCatalogARow ==
    pc = "done" => \A a \in RowsA : RowsFromA(a) <= 1

\* C6 as claimed: with includeMismatches the call returns the merged catalog
\* together with the list of the unmatched catalogA rows
C6_ReturnsUnmatchedList ==
    (pc = "done" /\ includeMismatches) =>
        /\ Len(ret) = 2
        /\ ret[1] = cat
        /\ ret[2] = UnmatchedRows(matched)

\* C6 as amended: the call returns the merged catalog alone; the catalogA
\* rows whose candidate carries no catalogB row are collected, in the order
\* processed, in the local list noMatch, whose length is the first number
\* reported when includeMismatches is requested.
C6_ReturnsCatalogOnly ==
    /\ noMatch = UnmatchedRows(matched)
    /\ pc = "done" =>
        /\ ret = <<cat>>
        /\ includeMismatches => printed[1] = Len(UnmatchedRows(matched))

\* C6 witness: a call with includeMismatches with unmatched and matched rows
C6_Witness ==
    /\ pc = "done"
    /\ includeMismatches
    /\ Len(noMatch) >= 1
    /\ Len(noMatch) < Len(matched)

\* C8 as claimed: the second number reported is the number of catalogA rows
\* that had a candidate but were not the closest for their catalogB row, and
\* is not negative; the first is the number of catalogA rows without candidate
C8_NotClosestCountsRows ==
    (pc = "done" /\ includeMismatches) =>
        /\ printed[1] = Cardinality({matched[i].m1 : i \in CandidatesOf(matched, None)})
        /\ printed[2] >= 0
        /\ printed[2] = Cardinality(Losers(matched, bestMatches))

(***************************************************************************)
(* Properties of createSchemaMapper                                        *)
(***************************************************************************)
NoDuplicates(seq) == \A i, j \in DOMAIN seq : seq[i] = seq[j] => i = j

C5_ConfigurationErrorExactly ==
    pc \in {"returned", "raised"} =>
        /\ scm.status = "ValueError" <=>
            \/ args.cat2.supplied /\ args.filterSuffix.supplied
            \/ args.filterSuffix.supplied /\ getCatSuffixes(args.schema) # <<>>
        /\ scm.status = "ValueError" => scm.out = <<>>

(***************************************************************************)
(* Properties of matchMultiBand and of strictMatch's schemas               *)
(***************************************************************************)
\* each catalog carries exactly one filter suffix, all distinct
SingleBandCatalogs ==
    /\ \A i \in DOMAIN cats : Len(scanSuffixes(cats[i])) = 1
    /\ \A i, j \in DOMAIN cats : scanSuffixes(cats[i]) = scanSuffixes(cats[j]) => i = j

\* the suffixes of the first n catalogs, in the order g < r < i < z < y
SuffixesFolded(n) ==
    SelectSeq(AllBands, LAMBDA s : \E i \in 1..n : Has(scanSuffixes(cats[i]), s))

\* the suffixed columns of a schema that a suffixable field or pattern names
SuffixableColumns(schema) ==
    SelectSeq(schema,
              LAMBDA n : /\ hasSuffix(n)
                         /\ \/ Has(_suffixableFields, SubSeq(n, 1, Len(n) - 1))
                            \/ \E k \in DOMAIN _suffixablePatterns :
                                  Has(extract(<<n>>, _suffixablePatterns[k]), n))

reservedNames(schema2) ==
    Apply(LAMBDA requests : [i \in DOMAIN requests |-> requests[i].name],
          reserveCat2(Some(schema2)))

\* C10 as claimed: for every second catalog whose columns strictMatch came
\* to look up in the merged schema, each column selected for copying (a name
\* ending in a suffix discovered in that catalog) is one createSchemaMapper
\* reserved, so that the lookup by name does not fail.
C10_CopiedColumnsReserved ==
    pc \in {"fold", "returned", "raised"} =>
        /\ \A i \in 2..Len(cats) :
              (i < nextCat \/ (i = nextCat /\ pc = "raised" /\ err.at = "strictMatch")) =>
                  \A f \in DOMAIN cat2Fields(cats[i]) :
                      Has(reservedNames(cats[i]), cat2Fields(cats[i])[f])
        /\ ~(pc = "raised" /\ err.at = "strictMatch")

(***************************************************************************)
(* Properties of goodSources                                               *)
(***************************************************************************)
anyBadFlag(row) ==
    \/ row["flags.pixel.edge"]
    \/ row["flags.pixel.bad"]
    \/ row["flags.pixel.saturated.center"]

\* C7 as claimed: the entry of a row is False exactly when one of the three
\* flags is set or deblend.nchild is greater than 0
C7_BadIffFlagOrPositiveChildren ==
    pc = "returned" =>
        /\ DOMAIN good = DOMAIN rows
        /\ \A i \in DOMAIN rows :
              good[i] = FALSE <=> (anyBadFlag(rows[i]) \/ rows[i]["deblend.nchild"] > 0)

\* C7 as amended: the result has one entry per row, which depends on that
\* row alone: it is False exactly when one of the three flags is set or
\* deblend.nchild is different from 0.
C7_BadIffFlagOrNonzeroChildren ==
    pc = "returned" =>
        /\ DOMAIN good = DOMAIN rows
        /\ \A i \in DOMAIN rows :
              good[i] = FALSE <=> (anyBadFlag(rows[i]) \/ rows[i]["deblend.nchild"] # 0)

\* C7 witness: a catalog with a good row and with a row without flag whose
\* deblend.nchild is negative
C7_Witness ==
    /\ pc = "returned"
    /\ \E i, j \in DOMAIN rows :
        /\ good[i]
        /\ ~anyBadFlag(rows[j]) /\ rows[j]["deblend.nchild"] < 0 /\ ~good[j]

====
